---- MODULE Spec2Model ----
(***************************************************************************)
(* Inventory Management System (src/main.py) over the SQLite schema and    *)
(* seed of src/scripts/setup_database.py.                                  *)
(*                                                                         *)
(* Tables are sets of rows (records).  Money (REAL columns holding prices  *)
(* and amounts) is counted in thousandths of the currency unit, so that    *)
(* round(x, 2) is a real conversion: 0.125 is 125, one cent is 10.         *)
(* Every request handler is one action; the variable response holds the    *)
(* handler that ran last, its request, the HTTP status and the body.       *)
(***************************************************************************)
EXTENDS Integers, Sequences, FiniteSets, TLC

VARIABLES inventory_items, locations, categories, printers, transactions,
          sqlite_sequence, response, calls

tables == <<inventory_items, locations, categories, printers, transactions,
            sqlite_sequence>>
vars == <<inventory_items, locations, categories, printers, transactions,
          sqlite_sequence, response, calls>>

(***************************************************************************)
(* Bounds of the model: how many rows the requests may add to the seed.    *)
(***************************************************************************)
MaxNewItems == 1
MaxNewLocations == 1
MaxNewCategories == 1
MaxNewPrinters == 1
MaxNewTransactions == 2

\* SQL NULL in a TEXT column or a LEFT JOIN that found no row.
NULL == "<NULL>"
\* SQL NULL in an INTEGER foreign key (rowids start at 1).
NULL_ID == 0
\* Thousandths of the currency unit in one cent (round(x, 2) keeps cents).
MillsPerCent == 10

(***************************************************************************)
(* The seed of setup_database().                                           *)
(***************************************************************************)
SeedCategories ==
  { [id |-> 1, name |-> "Toner", description |-> "Toner cartridges for printers"],
    [id |-> 2, name |-> "Paper", description |-> "Printing paper and materials"],
    [id |-> 3, name |-> "Ink", description |-> "Ink cartridges"],
    [id |-> 4, name |-> "Supplies", description |-> "General office supplies"] }

SeedLocations ==
  { [id |-> 1, name |-> "Main School", address |-> "123 Education Street, District A"],
    [id |-> 2, name |-> "Branch School A", address |-> "456 Learning Avenue, District B"],
    [id |-> 3, name |-> "Branch School B", address |-> "789 Knowledge Boulevard, District C"],
    [id |-> 4, name |-> "Central Office", address |-> "321 Administration Lane, Downtown"] }

PrinterRow(id, model, serial, loc, status, supplies) ==
  [id |-> id, model |-> model, serial_number |-> serial, location_id |-> loc,
   status |-> status, supplies |-> supplies]

SeedPrinters ==
  { PrinterRow(1, "HP LaserJet Pro MFP M428fdw", "SN-HP-001", 1, "Active", "Toner, Paper"),
    PrinterRow(2, "Canon imagePRESS C165", "SN-CN-001", 2, "Active", "Toner, Ink"),
    PrinterRow(3, "Xerox VersaLink C405", "SN-XR-001", 3, "Maintenance", "Toner"),
    PrinterRow(4, "Ricoh MP C3004ex", "SN-RC-001", 1, "Active", "Toner, Paper, Ink"),
    PrinterRow(5, "Brother MFC-L8900CDW", "SN-BR-001", 4, "Active", "Toner, Paper"),
    PrinterRow(6, "Epson WorkForce Pro WF-C5790", "SN-EP-001", 2, "Active", "Ink, Paper") }

ItemRow(id, name, sku, cat, qty, min, price, loc, printer, status) ==
  [id |-> id, name |-> name, sku |-> sku, category_id |-> cat, quantity |-> qty,
   min_stock |-> min, price |-> price, location_id |-> loc, printer_id |-> printer,
   status |-> status]

SeedItems ==
  { ItemRow(1, "Toner Cartridge Black HP 305A", "TCB-001", 1, 150, 50, 45990, 1, 1, "In Stock"),
    ItemRow(2, "Toner Cartridge Color Canon 046", "TCC-001", 1, 45, 50, 55990, 2, 2, "Low Stock"),
    ItemRow(3, "Paper A4 500 sheets Premium", "PA4-500", 2, 500, 200, 5990, 1, 1, "In Stock"),
    ItemRow(4, "Ink Cartridge Epson 603XL", "IC-001", 3, 20, 30, 25500, 3, 3, "Low Stock"),
    ItemRow(5, "Toner Cartridge Brother TN-2420", "TCB-002", 1, 80, 40, 42990, 4, 5, "In Stock"),
    ItemRow(6, "Paper A4 80gsm 2500 sheets", "PA4-2500", 2, 300, 150, 22990, 1, 4, "In Stock"),
    ItemRow(7, "Ink Cartridge HP 302XL Black", "IC-002", 3, 35, 25, 29990, 2, 6, "In Stock"),
    ItemRow(8, "Toner Cartridge Xerox 106R03623", "TCX-001", 1, 15, 30, 68990, 3, 3, "Low Stock") }

TransactionRow(id, item, loc, type, qty, ppu, total, pay, paydate, notes) ==
  [id |-> id, item_id |-> item, location_id |-> loc, transaction_type |-> type,
   quantity |-> qty, price_per_unit |-> ppu, total_amount |-> total,
   payment_status |-> pay, payment_date |-> paydate, notes |-> notes]

SeedTransactions ==
  { TransactionRow(1, 1, 1, "sale", 50, 45990, 2299500, "Pending", NULL, "Delivered to Main School"),
    TransactionRow(2, 2, 2, "sale", 30, 55990, 1679700, "Pending", NULL, "Delivered to Branch A"),
    TransactionRow(3, 3, 1, "sale", 100, 5990, 599000, "Paid", "2024-01-15", "Bulk order for Main School"),
    TransactionRow(4, 4, 3, "sale", 15, 25500, 382500, "Pending", NULL, "Emergency order"),
    TransactionRow(5, 5, 4, "sale", 40, 42990, 1719600, "Pending", NULL, "Monthly supplies") }

\* AUTOINCREMENT: the largest rowid each table has ever held.
SeedSequence ==
  [inventory_items |-> Cardinality(SeedItems), locations |-> Cardinality(SeedLocations),
   categories |-> Cardinality(SeedCategories), printers |-> Cardinality(SeedPrinters),
   transactions |-> Cardinality(SeedTransactions)]

Init ==
  /\ inventory_items = SeedItems
  /\ locations = SeedLocations
  /\ categories = SeedCategories
  /\ printers = SeedPrinters
  /\ transactions = SeedTransactions
  /\ sqlite_sequence = SeedSequence
  /\ response = [op |-> "startup", request |-> NULL, status |-> 200, body |-> NULL]
  /\ calls = {}

(***************************************************************************)
(* Inventory CRUD.                                                         *)
(***************************************************************************)
\* The name column of the row of `table` with this id; NULL when a LEFT JOIN
\* finds no such row.
JoinName(table, id) ==
  IF \E r \in table : r.id = id THEN (CHOOSE r \in table : r.id = id).name ELSE NULL

\* A slip of ItemStatus: the boundary quantity == min_stock counted as low.
ItemStatusAtMost(quantity, min_stock) ==
  IF quantity <= min_stock THEN "Low Stock" ELSE "In Stock"

\* status = "Low Stock" if item.quantity < item.min_stock else "In Stock"
ItemStatus(quantity, min_stock) ==
  IF quantity < min_stock THEN "Low Stock" ELSE "In Stock"

\* A slip of TotalPrice: the wrong integer column multiplied.
TotalPriceOfMinStock(row) == row.min_stock * row.price

\* (ii.quantity * ii.price) AS total_price
TotalPrice(row) == row.quantity * row.price

\* SELECT ii.*, c.name AS category_name, l.name AS location_name,
\*        (ii.quantity * ii.price) AS total_price ... LEFT JOIN ... LEFT JOIN
\* cut down to the fields of InventoryItemResponse.
ItemJoin(row, cats, locs) ==
  [id |-> row.id, name |-> row.name, sku |-> row.sku, category_id |-> row.category_id,
   category_name |-> JoinName(cats, row.category_id), quantity |-> row.quantity,
   min_stock |-> row.min_stock, price |-> row.price, total_price |-> TotalPrice(row),
   location_id |-> row.location_id, location_name |-> JoinName(locs, row.location_id),
   status |-> row.status]

\* response_model=InventoryItemResponse: category_name and location_name are
\* declared str, so a NULL from the LEFT JOIN fails the response validation.
ValidItemResponse(j) == j.category_name # NULL /\ j.location_name # NULL

\* A slip of SkuTaken: a schema whose sku column is not UNIQUE.
SkuNeverTaken(items, sku, id) == FALSE

\* The UNIQUE constraint on inventory_items.sku, for a row `id` about to hold sku.
SkuTaken(items, sku, id) == \E r \in items : r.sku = sku /\ r.id # id

Reply(op, request, status, body) ==
  [op |-> op, request |-> request, status |-> status, body |-> body]

InternalServerError == "Internal Server Error"

\* GET /api/inventory
get_inventory ==
  LET rows == {ItemJoin(r, categories, locations) : r \in inventory_items} IN
  /\ response' = IF \A j \in rows : ValidItemResponse(j)
                 THEN Reply("get_inventory", NULL, 200, rows)
                 ELSE Reply("get_inventory", NULL, 500, InternalServerError)
  /\ UNCHANGED tables

\* POST /api/inventory
create_inventory_item(item) ==
  LET status == ItemStatus(item.quantity, item.min_stock)
      item_id == sqlite_sequence.inventory_items + 1
      row == ItemRow(item_id, item.name, item.sku, item.category_id, item.quantity,
                     item.min_stock, item.price, item.location_id, NULL_ID, status)
      new_item == ItemJoin(row, categories, locations)
  IN IF SkuTaken(inventory_items, item.sku, item_id)
     THEN /\ response' = Reply("create_inventory_item", item, 400, "SKU already exists")
          /\ UNCHANGED tables
     ELSE /\ item_id <= Cardinality(SeedItems) + MaxNewItems
          /\ inventory_items' = inventory_items \cup {row}
          /\ sqlite_sequence' = [sqlite_sequence EXCEPT !.inventory_items = item_id]
          /\ response' = IF ValidItemResponse(new_item)
                         THEN Reply("create_inventory_item", item, 200, new_item)
                         ELSE Reply("create_inventory_item", item, 500, InternalServerError)
          /\ UNCHANGED <<locations, categories, printers, transactions>>

\* A slip of UpdateItemRow: status left out of the SET list.
UpdateItemRowStaleStatus(r, item, status) ==
  [r EXCEPT !.name = item.name, !.sku = item.sku, !.category_id = item.category_id,
            !.quantity = item.quantity, !.min_stock = item.min_stock,
            !.price = item.price, !.location_id = item.location_id]

\* UPDATE inventory_items SET name = ?, sku = ?, ... , status = ? WHERE id = ?
UpdateItemRow(r, item, status) ==
  [r EXCEPT !.name = item.name, !.sku = item.sku, !.category_id = item.category_id,
            !.quantity = item.quantity, !.min_stock = item.min_stock,
            !.price = item.price, !.location_id = item.location_id, !.status = status]

\* PUT /api/inventory/{item_id}
update_inventory_item(item_id, item) ==
  LET status == ItemStatus(item.quantity, item.min_stock)
      request == [item_id |-> item_id, item |-> item]
      found == \E r \in inventory_items : r.id = item_id
  IN IF found /\ SkuTaken(inventory_items, item.sku, item_id)
     THEN \* sqlite3.IntegrityError is raised outside any try block
          /\ response' = Reply("update_inventory_item", request, 500, InternalServerError)
          /\ UNCHANGED tables
     ELSE LET items_after == {IF r.id = item_id THEN UpdateItemRow(r, item, status) ELSE r
                               : r \in inventory_items}
              updated == {ItemJoin(r, categories, locations) : r \in {x \in items_after : x.id = item_id}}
          IN /\ inventory_items' = items_after
             /\ response' =
                  IF updated = {}
                  THEN Reply("update_inventory_item", request, 404, "Item not found")
                  ELSE LET updated_item == CHOOSE j \in updated : TRUE IN
                       IF ValidItemResponse(updated_item)
                       THEN Reply("update_inventory_item", request, 200, updated_item)
                       ELSE Reply("update_inventory_item", request, 500, InternalServerError)
             /\ UNCHANGED <<locations, categories, printers, transactions, sqlite_sequence>>

\* A slip of DeleteRow: the DELETE without its WHERE clause.
DeleteEveryRow(table, id) == {}

\* DELETE FROM inventory_items WHERE id = ?
DeleteRow(table, id) == {r \in table : r.id # id}

\* What delete_inventory_item would be if the transactions of the item went
\* with it (ON DELETE CASCADE).
delete_inventory_item_cascade(item_id) ==
  /\ inventory_items' = DeleteRow(inventory_items, item_id)
  /\ transactions' = {t \in transactions : t.item_id # item_id}
  /\ response' = Reply("delete_inventory_item", item_id, 200, "Item deleted successfully")
  /\ UNCHANGED <<locations, categories, printers, sqlite_sequence>>

\* DELETE /api/inventory/{item_id}
delete_inventory_item(item_id) ==
  /\ inventory_items' = DeleteRow(inventory_items, item_id)
  /\ response' = Reply("delete_inventory_item", item_id, 200, "Item deleted successfully")
  /\ UNCHANGED <<locations, categories, printers, transactions, sqlite_sequence>>

(***************************************************************************)
(* Categories, locations and printers.                                     *)
(***************************************************************************)
\* The UNIQUE constraint on categories.name and on locations.name.
NameTaken(table, name, id) == \E r \in table : r.name = name /\ r.id # id

\* The UNIQUE constraint on printers.serial_number.
SerialTaken(table, serial, id) == \E r \in table : r.serial_number = serial /\ r.id # id

\* POST /api/categories
create_category(category) ==
  LET cat_id == sqlite_sequence.categories + 1
      row == [id |-> cat_id, name |-> category.name, description |-> category.description]
  IN IF NameTaken(categories, category.name, cat_id)
     THEN /\ response' = Reply("create_category", category, 400, "Category already exists")
          /\ UNCHANGED tables
     ELSE /\ cat_id <= Cardinality(SeedCategories) + MaxNewCategories
          /\ categories' = categories \cup {row}
          /\ sqlite_sequence' = [sqlite_sequence EXCEPT !.categories = cat_id]
          /\ response' = Reply("create_category", category, 200, row)
          /\ UNCHANGED <<inventory_items, locations, printers, transactions>>

\* SELECT COUNT(*) FROM inventory_items / printers WHERE location_id = ?
CountAt(table, location_id) == Cardinality({r \in table : r.location_id = location_id})

\* POST /api/locations
create_location(location) ==
  LET location_id == sqlite_sequence.locations + 1
      row == [id |-> location_id, name |-> location.name, address |-> location.address]
  IN IF NameTaken(locations, location.name, location_id)
     THEN /\ response' = Reply("create_location", location, 400, "Location already exists")
          /\ UNCHANGED tables
     ELSE /\ location_id <= Cardinality(SeedLocations) + MaxNewLocations
          /\ locations' = locations \cup {row}
          /\ sqlite_sequence' = [sqlite_sequence EXCEPT !.locations = location_id]
          /\ response' = Reply("create_location", location, 200,
                               [id |-> row.id, name |-> row.name, address |-> row.address,
                                items |-> 0, printers |-> 0])
          /\ UNCHANGED <<inventory_items, categories, printers, transactions>>

\* PUT /api/locations/{location_id}
update_location(location_id, location) ==
  LET request == [location_id |-> location_id, location |-> location]
      found == \E r \in locations : r.id = location_id
  IN IF found /\ NameTaken(locations, location.name, location_id)
     THEN \* sqlite3.IntegrityError is raised outside any try block
          /\ response' = Reply("update_location", request, 500, InternalServerError)
          /\ UNCHANGED tables
     ELSE LET locs_after == {IF r.id = location_id
                              THEN [r EXCEPT !.name = location.name, !.address = location.address]
                              ELSE r : r \in locations}
              updated == {r \in locs_after : r.id = location_id}
          IN /\ locations' = locs_after
             /\ response' =
                  IF updated = {}
                  THEN Reply("update_location", request, 404, "Location not found")
                  ELSE LET updated_loc == CHOOSE r \in updated : TRUE IN
                       Reply("update_location", request, 200,
                             [id |-> updated_loc.id, name |-> updated_loc.name,
                              address |-> updated_loc.address,
                              items |-> CountAt(inventory_items, location_id),
                              printers |-> CountAt(printers, location_id)])
             /\ UNCHANGED <<inventory_items, categories, printers, transactions, sqlite_sequence>>

\* DELETE /api/locations/{location_id}
delete_location(location_id) ==
  /\ locations' = DeleteRow(locations, location_id)
  /\ response' = Reply("delete_location", location_id, 200, "Location deleted successfully")
  /\ UNCHANGED <<inventory_items, categories, printers, transactions, sqlite_sequence>>

\* SELECT p.*, l.name as location_name FROM printers p LEFT JOIN locations l
PrinterJoin(row, locs) ==
  [id |-> row.id, model |-> row.model, serial_number |-> row.serial_number,
   location_id |-> row.location_id, location_name |-> JoinName(locs, row.location_id),
   status |-> row.status, supplies |-> row.supplies]

\* response_model=PrinterResponse: location_name is declared str.
ValidPrinterResponse(j) == j.location_name # NULL

\* POST /api/printers
create_printer(printer) ==
  LET printer_id == sqlite_sequence.printers + 1
      row == PrinterRow(printer_id, printer.model, printer.serial_number,
                        printer.location_id, printer.status, printer.supplies)
      new_printer == PrinterJoin(row, locations)
  IN IF SerialTaken(printers, printer.serial_number, printer_id)
     THEN /\ response' = Reply("create_printer", printer, 400, "Serial number already exists")
          /\ UNCHANGED tables
     ELSE /\ printer_id <= Cardinality(SeedPrinters) + MaxNewPrinters
          /\ printers' = printers \cup {row}
          /\ sqlite_sequence' = [sqlite_sequence EXCEPT !.printers = printer_id]
          /\ response' = IF ValidPrinterResponse(new_printer)
                         THEN Reply("create_printer", printer, 200, new_printer)
                         ELSE Reply("create_printer", printer, 500, InternalServerError)
          /\ UNCHANGED <<inventory_items, locations, categories, transactions>>

\* PUT /api/printers/{printer_id}
update_printer(printer_id, printer) ==
  LET request == [printer_id |-> printer_id, printer |-> printer]
      found == \E r \in printers : r.id = printer_id
  IN IF found /\ SerialTaken(printers, printer.serial_number, printer_id)
     THEN \* sqlite3.IntegrityError is raised outside any try block
          /\ response' = Reply("update_printer", request, 500, InternalServerError)
          /\ UNCHANGED tables
     ELSE LET printers_after == {IF r.id = printer_id
                                  THEN PrinterRow(r.id, printer.model, printer.serial_number,
                                                  printer.location_id, printer.status,
                                                  printer.supplies)
                                  ELSE r : r \in printers}
              updated == {PrinterJoin(r, locations) : r \in {x \in printers_after : x.id = printer_id}}
          IN /\ printers' = printers_after
             /\ response' =
                  IF updated = {}
                  THEN Reply("update_printer", request, 404, "Printer not found")
                  ELSE LET updated_printer == CHOOSE j \in updated : TRUE IN
                       IF ValidPrinterResponse(updated_printer)
                       THEN Reply("update_printer", request, 200, updated_printer)
                       ELSE Reply("update_printer", request, 500, InternalServerError)
             /\ UNCHANGED <<inventory_items, locations, categories, transactions, sqlite_sequence>>

\* DELETE /api/printers/{printer_id}
delete_printer(printer_id) ==
  /\ printers' = DeleteRow(printers, printer_id)
  /\ response' = Reply("delete_printer", printer_id, 200, "Printer deleted successfully")
  /\ UNCHANGED <<inventory_items, locations, categories, transactions, sqlite_sequence>>

(***************************************************************************)
(* Transactions, financial summary, dashboard and reports.                 *)
(***************************************************************************)
\* total_amount = transaction.quantity * transaction.price_per_unit
TotalAmount(transaction) == transaction.quantity * transaction.price_per_unit

\* INSERT INTO transactions (...) VALUES (...)
NewTransaction(trans_id, transaction) ==
  TransactionRow(trans_id, transaction.item_id, transaction.location_id,
                 transaction.transaction_type, transaction.quantity,
                 transaction.price_per_unit, TotalAmount(transaction),
                 transaction.payment_status, transaction.payment_date, transaction.notes)

\* A slip of DecrementStock: the UPDATE without its WHERE clause.
DecrementEveryStock(items, quantity, item_id) ==
  {[r EXCEPT !.quantity = @ - quantity] : r \in items}

\* What DecrementStock would be if it kept status in step with the quantity.
DecrementStockAndStatus(items, quantity, item_id) ==
  {IF r.id = item_id
   THEN [r EXCEPT !.quantity = @ - quantity,
                  !.status = ItemStatus(r.quantity - quantity, r.min_stock)]
   ELSE r : r \in items}

\* What DecrementStock would be with a floor at zero.
DecrementStockToZero(items, quantity, item_id) ==
  {IF r.id = item_id
   THEN [r EXCEPT !.quantity = IF @ - quantity < 0 THEN 0 ELSE @ - quantity]
   ELSE r : r \in items}

\* UPDATE inventory_items SET quantity = quantity - ? WHERE id = ?
DecrementStock(items, quantity, item_id) ==
  {IF r.id = item_id THEN [r EXCEPT !.quantity = @ - quantity] ELSE r : r \in items}

\* A slip of IsSale: every transaction type moves the stock.
IsAnyType(transaction) == transaction.transaction_type \in {"sale", "purchase", "Sale"}

\* if transaction.transaction_type == 'sale'
IsSale(transaction) == transaction.transaction_type = "sale"

\* SELECT t.*, ii.name as item_name, l.name as location_name FROM transactions t
\* LEFT JOIN inventory_items ii ... LEFT JOIN locations l ...
TransactionJoin(row, items, locs) ==
  [row |-> row, item_name |-> JoinName(items, row.item_id),
   location_name |-> JoinName(locs, row.location_id)]

\* POST /api/transactions
create_transaction(transaction) ==
  LET trans_id == sqlite_sequence.transactions + 1
      row == NewTransaction(trans_id, transaction)
      items_after == IF IsSale(transaction)
                     THEN DecrementStock(inventory_items, transaction.quantity,
                                         transaction.item_id)
                     ELSE inventory_items
  IN /\ trans_id <= Cardinality(SeedTransactions) + MaxNewTransactions
     /\ transactions' = transactions \cup {row}
     /\ sqlite_sequence' = [sqlite_sequence EXCEPT !.transactions = trans_id]
     /\ inventory_items' = items_after
     /\ response' = Reply("create_transaction", transaction, 200,
                          TransactionJoin(row, items_after, locations))
     /\ UNCHANGED <<locations, categories, printers>>

(***************************************************************************)
(* create_transaction statement by statement.  FastAPI runs a `def`        *)
(* handler on a worker thread, each call on a connection of its own, so    *)
(* calls overlap; SQLite runs each statement and each commit as a whole.   *)
(* `calls` holds one record per call that has inserted its row: the row    *)
(* id, the request, the position of the call, the number of its commits,   *)
(* and quantity_seen, the quantity of the target item when the call        *)
(* committed its INSERT.  No statement of the handler reads quantity_seen; *)
(* it is kept as history of the run.                                       *)
(***************************************************************************)
\* The quantity column of the row of `items` with this id; NULL without one.
QuantityOf(items, id) ==
  IF \E r \in items : r.id = id THEN (CHOOSE r \in items : r.id = id).quantity ELSE NULL

\* The record of `calls` that takes the place of `call`.
Moved(call, pc, commits) == (calls \ {call}) \cup {[call EXCEPT !.pc = pc, !.commits = commits]}

\* cursor.execute("INSERT INTO transactions ..."); db.commit(); trans_id = cursor.lastrowid
insert_transaction(transaction) ==
  LET trans_id == sqlite_sequence.transactions + 1
      row == NewTransaction(trans_id, transaction)
  IN /\ trans_id <= Cardinality(SeedTransactions) + MaxNewTransactions
     /\ transactions' = transactions \cup {row}
     /\ sqlite_sequence' = [sqlite_sequence EXCEPT !.transactions = trans_id]
     /\ calls' = calls \cup {[trans_id |-> trans_id, transaction |-> transaction,
                              pc |-> "inserted", commits |-> 1,
                              quantity_seen |-> QuantityOf(inventory_items,
                                                           transaction.item_id)]}
     /\ UNCHANGED <<inventory_items, locations, categories, printers, response>>

\* What update_stock would be as a read-modify-write: the quantity the call
\* saw earlier, less the quantity sold, written back.
update_stock_read_modify_write(call) ==
  /\ call.pc = "inserted"
  /\ IsSale(call.transaction)
  /\ inventory_items' =
       {IF r.id = call.transaction.item_id
        THEN [r EXCEPT !.quantity = call.quantity_seen - call.transaction.quantity]
        ELSE r : r \in inventory_items}
  /\ calls' = Moved(call, "updated", 2)
  /\ UNCHANGED <<locations, categories, printers, transactions, sqlite_sequence, response>>

\* if transaction.transaction_type == 'sale':
\*     cursor.execute("UPDATE inventory_items SET quantity = quantity - ? ..."); db.commit()
update_stock(call) ==
  /\ call.pc = "inserted"
  /\ IsSale(call.transaction)
  /\ inventory_items' = DecrementStock(inventory_items, call.transaction.quantity,
                                       call.transaction.item_id)
  /\ calls' = Moved(call, "updated", 2)
  /\ UNCHANGED <<locations, categories, printers, transactions, sqlite_sequence, response>>

\* cursor.execute("SELECT t.*, ... WHERE t.id = ?"); db.close(); return dict(new_trans)
return_transaction(call) ==
  /\ \/ call.pc = "updated"
     \/ call.pc = "inserted" /\ ~IsSale(call.transaction)
  /\ \E row \in transactions :
        /\ row.id = call.trans_id
        /\ response' = Reply("create_transaction", call.transaction, 200,
                             TransactionJoin(row, inventory_items, locations))
  /\ calls' = Moved(call, "returned", call.commits)
  /\ UNCHANGED tables

\* What fail_transaction would be if the handler undid its INSERT on failure.
fail_transaction_rollback(call) ==
  /\ call.pc \in {"inserted", "updated"}
  /\ transactions' = {t \in transactions : t.id # call.trans_id}
  /\ response' \in {response,
                    Reply("create_transaction", call.transaction, 500, InternalServerError)}
  /\ calls' = Moved(call, "failed", call.commits)
  /\ UNCHANGED <<inventory_items, locations, categories, printers, sqlite_sequence>>

\* The call ends after its first commit without reaching its return: the
\* process is killed (no answer is sent), or a later statement raises, as
\* sqlite3.OperationalError "database is locked" does while another connection
\* holds the write lock (the handler catches nothing, the answer is 500).
\* What is committed stays; nothing rolls it back.
fail_transaction(call) ==
  /\ call.pc \in {"inserted", "updated"}
  /\ response' \in {response,
                    Reply("create_transaction", call.transaction, 500, InternalServerError)}
  /\ calls' = Moved(call, "failed", call.commits)
  /\ UNCHANGED tables

\* A slip of SumAmount: SUM(price_per_unit) in place of SUM(total_amount).
RECURSIVE SumPricePerUnit(_)
SumPricePerUnit(rows) ==
  IF rows = {} THEN 0
  ELSE LET r == CHOOSE x \in rows : TRUE IN r.price_per_unit + SumPricePerUnit(rows \ {r})

\* SELECT SUM(total_amount) FROM transactions [WHERE ...], with
\* `result["total"] if result["total"] else 0` for the NULL of an empty table.
RECURSIVE SumAmount(_)
SumAmount(rows) ==
  IF rows = {} THEN 0
  ELSE LET r == CHOOSE x \in rows : TRUE IN r.total_amount + SumAmount(rows \ {r})

\* WHERE payment_status = ?
WithStatus(rows, payment_status) == {r \in rows : r.payment_status = payment_status}

\* round(x, 2): the cents nearest to an amount x given in thousandths.  Half a
\* cent goes to either neighbour: the binary double behind a decimal ...5 lies
\* on either side of the tie, and an exact tie goes to the even neighbour.
Round2(x) ==
  LET down == x \div MillsPerCent
      rest == x % MillsPerCent
  IN IF 2 * rest < MillsPerCent THEN {down}
     ELSE IF 2 * rest > MillsPerCent THEN {down + 1}
     ELSE {down, down + 1}

\* SELECT l.name as location, SUM(CASE ...) as pending, SUM(CASE ...) as paid,
\*        SUM(t.total_amount) as total
\* FROM transactions t LEFT JOIN locations l ON t.location_id = l.id GROUP BY l.name
TransactionsByLocation(rows, locs) ==
  { [location |-> n,
     pending |-> SumAmount(WithStatus({t \in rows : JoinName(locs, t.location_id) = n}, "Pending")),
     paid |-> SumAmount(WithStatus({t \in rows : JoinName(locs, t.location_id) = n}, "Paid")),
     total |-> SumAmount({t \in rows : JoinName(locs, t.location_id) = n})]
    : n \in {JoinName(locs, t.location_id) : t \in rows} }

\* GET /api/financial/summary
get_financial_summary ==
  LET total_spent == SumAmount(transactions)
      pending == SumAmount(WithStatus(transactions, "Pending"))
      paid == SumAmount(WithStatus(transactions, "Paid"))
      by_location == TransactionsByLocation(transactions, locations)
  IN /\ \E ts \in Round2(total_spent), tp \in Round2(pending), td \in Round2(paid) :
          response' = Reply("get_financial_summary", NULL, 200,
                            [total_spent |-> ts, total_pending |-> tp, total_paid |-> td,
                             transactions_by_location |-> by_location])
     /\ UNCHANGED tables

\* A slip of LowStock: the report trusting the stored status.
LowStockByStatus(items) == {r \in items : r.status = "Low Stock"}

\* WHERE ii.quantity < ii.min_stock
LowStock(items) == {r \in items : r.quantity < r.min_stock}

\* A slip of CountRows: the highest id in place of the number of rows.
CountRowsByMaxId(table) ==
  IF table = {} THEN 0 ELSE CHOOSE n \in {r.id : r \in table} : \A r \in table : r.id <= n

\* SELECT COUNT(*) as count FROM inventory_items
CountRows(table) == Cardinality(table)

\* GET /api/dashboard/metrics
get_dashboard_metrics ==
  LET total_spent == SumAmount(transactions)
      pending_payments == SumAmount(WithStatus(transactions, "Pending"))
  IN /\ \E ts \in Round2(total_spent), pp \in Round2(pending_payments),
          pa \in Round2(total_spent - pending_payments) :
          response' = Reply("get_dashboard_metrics", NULL, 200,
                            [total_items |-> CountRows(inventory_items),
                             low_stock_count |-> Cardinality(LowStock(inventory_items)),
                             total_locations |-> Cardinality(locations),
                             total_printers |-> Cardinality(printers),
                             total_spent |-> ts, pending_payments |-> pp,
                             paid_amount |-> pa])
     /\ UNCHANGED tables

\* ORDER BY ii.quantity ASC: every order of the rows that ascends by quantity
\* (SQL leaves the order of rows with equal quantity open).
RECURSIVE OrderByQuantity(_)
OrderByQuantity(rows) ==
  IF rows = {} THEN {<<>>}
  ELSE UNION { {<<m>> \o t : t \in OrderByQuantity(rows \ {m})}
               : m \in {x \in rows : \A y \in rows : x.quantity <= y.quantity} }

\* SELECT ii.*, c.name as category_name, l.name as location_name,
\*        (ii.quantity * ii.price) as total_value FROM inventory_items ii ...
LowStockJoin(row, cats, locs) ==
  [id |-> row.id, name |-> row.name, sku |-> row.sku, category_id |-> row.category_id,
   category_name |-> JoinName(cats, row.category_id), quantity |-> row.quantity,
   min_stock |-> row.min_stock, price |-> row.price, total_value |-> TotalPrice(row),
   location_id |-> row.location_id, location_name |-> JoinName(locs, row.location_id),
   printer_id |-> row.printer_id, status |-> row.status]

\* GET /api/reports/low-stock
get_low_stock_report ==
  /\ \E items \in OrderByQuantity({LowStockJoin(r, categories, locations)
                                    : r \in LowStock(inventory_items)}) :
        response' = Reply("get_low_stock_report", NULL, 200, items)
  /\ UNCHANGED tables

(***************************************************************************)
(* The requests the clients send.                                          *)
(***************************************************************************)
\* InventoryItemCreate
ItemRequests ==
  [name : {"Drum Unit"}, sku : {"TCC-001", "DRM-001"}, category_id : {1},
   quantity : {1, 2, 3}, min_stock : {2}, price : {125}, location_id : {1}]

\* {item_id} of PUT and DELETE /api/inventory/{item_id}
ItemIds == {1, Cardinality(SeedItems) + 1}

\* TransactionCreate: stock movements
StockRequests ==
  [item_id : {1}, location_id : {1}, transaction_type : {"sale", "purchase"},
   quantity : {10, -5}, price_per_unit : {125}, payment_status : {"Pending"},
   payment_date : {NULL}, notes : {NULL}]

\* TransactionCreate: payments
PaymentRequests ==
  [item_id : {1}, location_id : {1, 2}, transaction_type : {"sale"},
   quantity : {1, 2}, price_per_unit : {125},
   payment_status : {"Pending", "Paid", "Refunded"}, payment_date : {NULL},
   notes : {NULL}]

\* TransactionCreate: transaction_type is free text
OtherTypeRequests ==
  [item_id : {1}, location_id : {1}, transaction_type : {"Sale", "purchase"},
   quantity : {1}, price_per_unit : {125}, payment_status : {"Pending"},
   payment_date : {NULL}, notes : {NULL}]

\* LocationCreate
LocationRequests == [name : {"Branch School A", "Annex"}, address : {"1 New Road"}]

\* {location_id} of PUT and DELETE /api/locations/{location_id}
LocationIds == {1, Cardinality(SeedLocations) + 1}

\* PrinterCreate
PrinterRequests ==
  [model : {"Kyocera ECOSYS"}, serial_number : {"SN-CN-001", "SN-KY-001"},
   location_id : {1}, status : {"Active"}, supplies : {NULL}]

\* {printer_id} of PUT and DELETE /api/printers/{printer_id}
PrinterIds == {1, Cardinality(SeedPrinters) + 1}

\* CategoryCreate
CategoryRequests == [name : {"Toner", "Labels"}, description : {NULL}]

CreateItem ==
  /\ \E item \in ItemRequests : create_inventory_item(item)
  /\ UNCHANGED calls
UpdateItem ==
  /\ \E item_id \in ItemIds, item \in ItemRequests :
        update_inventory_item(item_id, item)
  /\ UNCHANGED calls
DeleteItem ==
  /\ \E item_id \in ItemIds : delete_inventory_item(item_id)
  /\ UNCHANGED calls
ListItems ==
  /\ get_inventory
  /\ UNCHANGED calls
CreateTransaction ==
  /\ \E transaction \in StockRequests : create_transaction(transaction)
  /\ UNCHANGED calls
RecordPayment ==
  /\ \E transaction \in PaymentRequests : create_transaction(transaction)
  /\ UNCHANGED calls
RecordOtherType ==
  /\ \E transaction \in OtherTypeRequests : create_transaction(transaction)
  /\ UNCHANGED calls
FinancialSummary ==
  /\ get_financial_summary
  /\ UNCHANGED calls
DashboardMetrics ==
  /\ get_dashboard_metrics
  /\ UNCHANGED calls
LowStockItems ==
  /\ get_low_stock_report
  /\ UNCHANGED calls
CreateCategory ==
  /\ \E category \in CategoryRequests : create_category(category)
  /\ UNCHANGED calls
CreateLocation ==
  /\ \E location \in LocationRequests : create_location(location)
  /\ UNCHANGED calls
UpdateLocation ==
  /\ \E location_id \in LocationIds, location \in LocationRequests :
        update_location(location_id, location)
  /\ UNCHANGED calls
DeleteLocation ==
  /\ \E location_id \in LocationIds : delete_location(location_id)
  /\ UNCHANGED calls
CreatePrinter ==
  /\ \E printer \in PrinterRequests : create_printer(printer)
  /\ UNCHANGED calls
UpdatePrinter ==
  /\ \E printer_id \in PrinterIds, printer \in PrinterRequests :
        update_printer(printer_id, printer)
  /\ UNCHANGED calls
DeletePrinter ==
  /\ \E printer_id \in PrinterIds : delete_printer(printer_id)
  /\ UNCHANGED calls

\* TransactionCreate of the calls that overlap
CallRequests ==
  [item_id : {1, 2}, location_id : {1}, transaction_type : {"sale", "purchase"},
   quantity : {10, 25}, price_per_unit : {125}, payment_status : {"Pending"},
   payment_date : {NULL}, notes : {NULL}]

InsertTransaction == \E transaction \in CallRequests : insert_transaction(transaction)
UpdateStock == \E call \in calls : update_stock(call)
ReturnTransaction == \E call \in calls : return_transaction(call)
FailTransaction == \E call \in calls : fail_transaction(call)

\* The inventory ledger and the transactions that move its stock.
Next ==
  \/ CreateItem
  \/ UpdateItem
  \/ DeleteItem
  \/ ListItems
  \/ CreateTransaction
  \/ LowStockItems
  \/ DashboardMetrics
  \/ DeleteLocation

Spec == Init /\ [][Next]_vars

\* The transactions and the aggregates over their amounts.
NextFinance ==
  \/ RecordPayment
  \/ RecordOtherType
  \/ FinancialSummary
  \/ DashboardMetrics
  \/ DeleteLocation

SpecFinance == Init /\ [][NextFinance]_vars

\* The catalog (categories, locations, printers) and the items that refer to it.
NextCatalog ==
  \/ CreateCategory
  \/ CreateLocation
  \/ UpdateLocation
  \/ DeleteLocation
  \/ CreatePrinter
  \/ UpdatePrinter
  \/ DeletePrinter
  \/ UpdateItem
  \/ DeleteItem

SpecCatalog == Init /\ [][NextCatalog]_vars

\* Overlapping create_transaction calls, each one statement at a time.
NextCalls ==
  \/ InsertTransaction
  \/ UpdateStock
  \/ ReturnTransaction
  \/ FailTransaction

SpecCalls == Init /\ [][NextCalls]_vars

(***************************************************************************)
(* Properties.                                                             *)
(***************************************************************************)
ItemIdsOf(items) == {r.id : r \in items}
ItemWithId(items, id) == CHOOSE r \in items : r.id = id

\* C1: a successful createTransaction of type "sale" for an existing item I
\* with quantity Q leaves I's stored quantity at its old value minus Q, and
\* leaves the quantity of every other item as it was.
C1_SaleReducesStockByQ ==
  [][(/\ response'.op = "create_transaction"
      /\ response'.status = 200
      /\ response'.request.transaction_type = "sale"
      /\ response'.request.item_id \in ItemIdsOf(inventory_items))
     => /\ ItemIdsOf(inventory_items') = ItemIdsOf(inventory_items)
        /\ \A r \in inventory_items :
             ItemWithId(inventory_items', r.id).quantity =
               IF r.id = response'.request.item_id
               THEN r.quantity - response'.request.quantity
               ELSE r.quantity]_vars

\* C1 witness: the sale of 10 on the seeded item of quantity 150 left 140.
C1_Witness ==
  /\ response.op = "create_transaction"
  /\ response.request.transaction_type = "sale"
  /\ response.request.quantity = 10
  /\ \E r \in inventory_items : r.id = response.request.item_id /\ r.quantity = 140

\* C2: the row a createItem call stores has status "Low Stock" if the requested
\* quantity is below min_stock and "In Stock" if it is min_stock or more.
C2_CreateStatus ==
  (response.op = "create_inventory_item" /\ response.status = 200)
  => \E r \in inventory_items :
        /\ r.id = response.body.id
        /\ r.sku = response.request.sku
        /\ (response.request.quantity < response.request.min_stock => r.status = "Low Stock")
        /\ (response.request.quantity >= response.request.min_stock => r.status = "In Stock")

\* C2 witness: an item created with quantity == min_stock, stored "In Stock".
C2_Witness ==
  /\ response.op = "create_inventory_item"
  /\ response.status = 200
  /\ response.request.quantity = response.request.min_stock
  /\ \E r \in inventory_items : r.id = response.body.id /\ r.status = "In Stock"

\* C3: createItem with a sku some stored item holds answers 400 and changes no
\* table; no state holds two items with one sku.
C3_DuplicateSkuRejected ==
  /\ [](\A a, b \in inventory_items : a.sku = b.sku => a.id = b.id)
  /\ [][(/\ response'.op = "create_inventory_item"
         /\ \E r \in inventory_items : r.sku = response'.request.sku)
        => /\ response'.status = 400
           /\ UNCHANGED tables]_vars

\* C3 witness: the sku of an item that an earlier createItem stored is refused.
C3_Witness ==
  /\ response.op = "create_inventory_item"
  /\ response.status = 400
  /\ \E r \in inventory_items :
        /\ r.id > Cardinality(SeedItems)
        /\ r.sku = response.request.sku

\* C4: the low-stock report lists exactly the items whose current quantity is
\* below min_stock, each once, whatever their stored status, in ascending
\* order of quantity.
C4_LowStockReport ==
  response.op = "get_low_stock_report"
  => LET items == response.body IN
     /\ {items[i].id : i \in DOMAIN items} =
          {r.id : r \in {x \in inventory_items : x.quantity < x.min_stock}}
     /\ \A i, j \in DOMAIN items :
          /\ (items[i].id = items[j].id => i = j)
          /\ (i < j => items[i].quantity <= items[j].quantity)
     /\ \A i \in DOMAIN items :
          items[i].quantity = ItemWithId(inventory_items, items[i].id).quantity

\* C4 witness: the report lists an item a sale took below min_stock while its
\* stored status still says "In Stock".
C4_Witness ==
  /\ response.op = "get_low_stock_report"
  /\ \E i \in DOMAIN response.body :
        /\ response.body[i].status = "In Stock"
        /\ response.body[i].quantity < response.body[i].min_stock

\* The sum of total_amount over a set of transaction rows.
RECURSIVE AmountTotal(_)
AmountTotal(rows) ==
  IF rows = {} THEN 0
  ELSE LET r == CHOOSE x \in rows : TRUE IN AmountTotal(rows \ {r}) + r.total_amount

OnlyPendingOrPaid == \A t \in transactions : t.payment_status \in {"Pending", "Paid"}

\* C5 as claimed: total_spent of the financial summary is the sum of
\* total_amount over the stored transactions, and total_pending + total_paid
\* is total_spent when every payment_status is "Pending" or "Paid".
C5_SummaryIsExactSum ==
  response.op = "get_financial_summary"
  => /\ response.body.total_spent * MillsPerCent = AmountTotal(transactions)
     /\ (OnlyPendingOrPaid
         => response.body.total_pending + response.body.total_paid
              = response.body.total_spent)

\* C5 as amended: total_spent is the sum of total_amount rounded to whole
\* cents (within half a cent of the sum); when every payment_status is
\* "Pending" or "Paid", total_pending + total_paid is within one cent of
\* total_spent, and is total_spent when the pending and the paid sums are
\* whole cents.
C5_SummaryIsRoundedSum ==
  response.op = "get_financial_summary"
  => LET total == AmountTotal(transactions)
         pending == AmountTotal({t \in transactions : t.payment_status = "Pending"})
         paid == AmountTotal({t \in transactions : t.payment_status = "Paid"})
         spent == response.body.total_spent
         both == response.body.total_pending + response.body.total_paid
     IN /\ 2 * (spent * MillsPerCent - total) <= MillsPerCent
        /\ 2 * (total - spent * MillsPerCent) <= MillsPerCent
        /\ (OnlyPendingOrPaid => both - spent \in {-1, 0, 1})
        /\ (OnlyPendingOrPaid /\ pending % MillsPerCent = 0 /\ paid % MillsPerCent = 0
            => both = spent)

\* C5 witness: every payment is "Pending" or "Paid", the pending and the paid
\* sums each carry half a cent, and total_pending + total_paid is not
\* total_spent.
C5_Witness ==
  /\ response.op = "get_financial_summary"
  /\ OnlyPendingOrPaid
  /\ AmountTotal({t \in transactions : t.payment_status = "Paid"}) % MillsPerCent # 0
  /\ AmountTotal({t \in transactions : t.payment_status = "Pending"}) % MillsPerCent # 0
  /\ response.body.total_pending + response.body.total_paid # response.body.total_spent

ListedItems ==
  IF response.op = "get_inventory" /\ response.status = 200 THEN response.body
  ELSE IF response.op \in {"create_inventory_item", "update_inventory_item"}
          /\ response.status = 200 THEN {response.body}
  ELSE {}

\* C6: every item that listItems, createItem or updateItem returns carries
\* total_price = its stored quantity times its stored price.
C6_TotalPrice ==
  \A j \in ListedItems :
     \E r \in inventory_items : r.id = j.id /\ j.total_price = r.quantity * r.price

\* C6 witness: the list after a sale took the seeded item from 150 to 140.
C6_Witness ==
  /\ response.op = "get_inventory"
  /\ \E j \in ListedItems : j.id = 1 /\ j.quantity = 140 /\ j.total_price = 140 * 45990

Orphans == {r \in inventory_items : r.location_id \notin {l.id : l \in locations}}

\* C7 as claimed: deleting a location answers without error, and listItems
\* still returns every stored item when some refer to a deleted location.
C7_OrphansStillListed ==
  /\ (response.op = "delete_location" => response.status = 200)
  /\ (response.op = "get_inventory" /\ Orphans # {}
      => /\ response.status = 200
         /\ \A r \in inventory_items : \E j \in response.body : j.id = r.id)

\* C8: updateItem on a stored id (whose new sku no other item holds) replaces
\* name, sku, category_id, quantity, min_stock, price and location_id, stores
\* status "Low Stock" exactly if the new quantity is below the new min_stock
\* and "In Stock" otherwise, and leaves the other items alone; on an id that
\* is not stored it answers 404 and leaves every item as it was.
C8_UpdateItem ==
  [][response'.op = "update_inventory_item"
     => LET id == response'.request.item_id
            item == response'.request.item
        IN IF id \notin ItemIdsOf(inventory_items)
           THEN response'.status = 404 /\ inventory_items' = inventory_items
           ELSE (\A r \in inventory_items : r.sku = item.sku => r.id = id)
                => /\ ItemIdsOf(inventory_items') = ItemIdsOf(inventory_items)
                   /\ \A r \in inventory_items : r.id # id => r \in inventory_items'
                   /\ LET new == ItemWithId(inventory_items', id)
                          old == ItemWithId(inventory_items, id)
                      IN /\ new.name = item.name
                         /\ new.sku = item.sku
                         /\ new.category_id = item.category_id
                         /\ new.quantity = item.quantity
                         /\ new.min_stock = item.min_stock
                         /\ new.price = item.price
                         /\ new.location_id = item.location_id
                         /\ new.printer_id = old.printer_id
                         /\ new.status \in {"Low Stock", "In Stock"}
                         /\ (new.status = "Low Stock" <=> item.quantity < item.min_stock)]_vars

\* C8 witness: an update took the seeded item 1 (quantity 150, min_stock 50,
\* "In Stock") to a quantity below the new min_stock and stored "Low Stock".
C8_Witness ==
  /\ response.op = "update_inventory_item"
  /\ response.status = 200
  /\ response.request.item.quantity < response.request.item.min_stock
  /\ \E r \in inventory_items : r.id = response.request.item_id /\ r.status = "Low Stock"

\* The request of the step would break a UNIQUE constraint of the tables as
\* they are before the step.
BreaksUnique ==
  \/ /\ response'.op = "create_inventory_item"
     /\ \E r \in inventory_items : r.sku = response'.request.sku
  \/ /\ response'.op = "create_location"
     /\ \E r \in locations : r.name = response'.request.name
  \/ /\ response'.op = "create_category"
     /\ \E r \in categories : r.name = response'.request.name
  \/ /\ response'.op = "create_printer"
     /\ \E r \in printers : r.serial_number = response'.request.serial_number
  \/ /\ response'.op = "update_inventory_item"
     /\ response'.request.item_id \in ItemIdsOf(inventory_items)
     /\ \E r \in inventory_items :
           r.sku = response'.request.item.sku /\ r.id # response'.request.item_id
  \/ /\ response'.op = "update_location"
     /\ response'.request.location_id \in ItemIdsOf(locations)
     /\ \E r \in locations :
           r.name = response'.request.location.name /\ r.id # response'.request.location_id
  \/ /\ response'.op = "update_printer"
     /\ response'.request.printer_id \in ItemIdsOf(printers)
     /\ \E r \in printers :
           /\ r.serial_number = response'.request.printer.serial_number
           /\ r.id # response'.request.printer_id

\* C9 as claimed: every create or update that would break a UNIQUE constraint
\* (item sku, location name, category name, printer serial_number) answers
\* 400 and changes no table.
C9_ConflictAnswers400 ==
  [][BreaksUnique => response'.status = 400 /\ UNCHANGED tables]_vars

\* The step is a delete whose target id is not stored before it.
DeletesAbsent ==
  \/ /\ response'.op = "delete_inventory_item"
     /\ response'.request \notin ItemIdsOf(inventory_items)
  \/ /\ response'.op = "delete_location"
     /\ response'.request \notin ItemIdsOf(locations)
  \/ /\ response'.op = "delete_printer"
     /\ response'.request \notin ItemIdsOf(printers)

\* C10 as claimed: a delete of an id that is not stored answers 404 and
\* changes no table.
C10_DeleteAbsentAnswers404 ==
  [][DeletesAbsent => response'.status = 404 /\ UNCHANGED tables]_vars

\* C10 as amended: a delete of an id that is not stored answers 200 with the
\* "deleted successfully" message and changes no table.
C10_DeleteAbsentSucceeds ==
  [][DeletesAbsent
     => /\ response'.status = 200
        /\ response'.body \in {"Item deleted successfully", "Location deleted successfully",
                               "Printer deleted successfully"}
        /\ UNCHANGED tables]_vars

\* C10 witness: the delete of an item id that no row has ever had.
C10_Witness ==
  /\ response.op = "delete_inventory_item"
  /\ response.status = 200
  /\ response.request > sqlite_sequence.inventory_items

\* C11: total_items of the dashboard metrics is the number of stored items in
\* every state; a createItem that answers 200 raises the number of stored
\* items (and so total_items) by exactly one, and a createItem refused for its
\* sku and every createTransaction leave it as it was.
C11_TotalItems ==
  /\ [](response.op = "get_dashboard_metrics"
        => response.body.total_items = Cardinality(inventory_items))
  /\ [][/\ (response'.op = "create_inventory_item" /\ response'.status = 200
            => Cardinality(inventory_items') = Cardinality(inventory_items) + 1)
        /\ (response'.op = "create_inventory_item" /\ response'.status = 400
            => Cardinality(inventory_items') = Cardinality(inventory_items))
        /\ (response'.op = "create_transaction"
            => Cardinality(inventory_items') = Cardinality(inventory_items))]_vars

\* C11 witness: the metrics count the seeded items less a deleted one plus a
\* created one, whose id is above the count.
C11_Witness ==
  /\ response.op = "get_dashboard_metrics"
  /\ response.body.total_items = Cardinality(SeedItems)
  /\ \E r \in inventory_items : r.id > Cardinality(SeedItems)
  /\ \E t \in transactions : t.id > Cardinality(SeedTransactions)

\* C12: transactions are append-only: no step changes a field of a stored
\* transaction row or removes it, so the set of rows only grows and every id
\* keeps naming the row it was given to.
C12_TransactionsAppendOnly ==
  [][/\ \A t \in transactions : t \in transactions'
     /\ \A t \in transactions' : t \in transactions \/ t.id > sqlite_sequence.transactions]_vars

\* C12 witness: a transaction recorded by createTransaction is still stored
\* after the item it refers to was deleted.
C12_Witness ==
  /\ response.op = "delete_inventory_item"
  /\ \E t \in transactions :
        /\ t.id > Cardinality(SeedTransactions)
        /\ t.item_id = response.request
        /\ t.item_id \notin ItemIdsOf(inventory_items)

\* The calls that have neither returned nor failed.
InFlight == {c \in calls : c.pc \in {"inserted", "updated"}}

\* C13: the INSERT of a sale and its stock decrement are committed in two
\* steps: the step that stores the row leaves every item as it was, only the
\* later step of the call changes a quantity, and a call that ends between the
\* two changes no table: its row stays stored, nothing rolls it back.
C13_InsertAndDecrementCommitApart ==
  /\ [](\A c \in calls : \E t \in transactions :
           /\ t.id = c.trans_id
           /\ t.transaction_type = c.transaction.transaction_type
           /\ t.quantity = c.transaction.quantity)
  /\ [][/\ \A c \in calls' :
             c.pc = "inserted" /\ c \notin calls
             => /\ inventory_items' = inventory_items
                /\ \E t \in transactions' : t.id = c.trans_id /\ t \notin transactions
        /\ \A c \in calls :
             c.pc = "inserted" /\ [c EXCEPT !.pc = "failed"] \in calls'
             => UNCHANGED tables
        /\ inventory_items' # inventory_items
           => \E c \in calls :
                 /\ c.pc = "inserted"
                 /\ [c EXCEPT !.pc = "updated", !.commits = 2] \in calls']_vars

\* C13 witness: no call is in flight, a sale that ended between its two
\* commits has its row stored, and the item it sold still has the seeded
\* quantity.
C13_Witness ==
  /\ InFlight = {}
  /\ \E c \in calls :
        /\ c.pc = "failed"
        /\ c.commits = 1
        /\ IsSale(c.transaction)
        /\ \E t \in transactions : t.id = c.trans_id /\ t.transaction_type = "sale"
        /\ QuantityOf(inventory_items, c.transaction.item_id)
             = QuantityOf(SeedItems, c.transaction.item_id)

\* The sum of the requested quantities of a set of calls.
RECURSIVE QuantityTotal(_)
QuantityTotal(cs) ==
  IF cs = {} THEN 0
  ELSE LET c == CHOOSE x \in cs : TRUE IN QuantityTotal(cs \ {c}) + c.transaction.quantity

\* The sales of item `id` that have committed their stock decrement.
SalesApplied(id) ==
  {c \in calls : IsSale(c.transaction) /\ c.transaction.item_id = id /\ c.commits = 2}

\* The step runs the stock decrement of `call`.
Decrements(call) ==
  /\ call.pc = "inserted"
  /\ [call EXCEPT !.pc = "updated", !.commits = 2] \in calls'

\* C14 as claimed: the stock decrement of a sale is a read-modify-write: it
\* stores the quantity the call read earlier less the quantity sold, so that
\* of two overlapping sales of one item one decrement is lost.
C14_DecrementIsReadModifyWrite ==
  [][\A c \in calls :
        Decrements(c)
        => QuantityOf(inventory_items', c.transaction.item_id)
             = c.quantity_seen - c.transaction.quantity]_vars

\* C14 as amended: the stock decrement of a sale is one UPDATE that takes the
\* quantity sold off the quantity stored when it runs, so no decrement is
\* lost: in every state each item holds its initial quantity less the
\* quantities of all sales that have committed their decrement, and two
\* overlapping sales of Q1 and Q2 that both complete leave initial - Q1 - Q2.
C14_NoDecrementIsLost ==
  \A r \in inventory_items :
     r.quantity = QuantityOf(SeedItems, r.id) - QuantityTotal(SalesApplied(r.id))

\* C14 witness: two sales of one item, of different quantities, were both in
\* flight before either decrement ran (both saw the initial quantity), both
\* have returned, and the item holds initial - Q1 - Q2.
C14_Witness ==
  /\ InFlight = {}
  /\ \E a, b \in calls :
        /\ a.trans_id # b.trans_id
        /\ a.pc = "returned" /\ b.pc = "returned"
        /\ IsSale(a.transaction) /\ IsSale(b.transaction)
        /\ a.transaction.item_id = b.transaction.item_id
        /\ a.transaction.quantity # b.transaction.quantity
        /\ a.quantity_seen = QuantityOf(SeedItems, a.transaction.item_id)
        /\ b.quantity_seen = a.quantity_seen
        /\ QuantityOf(inventory_items, a.transaction.item_id)
             = a.quantity_seen - a.transaction.quantity - b.transaction.quantity

\* C15: a sale leaves the stored status, and every field other than quantity,
\* of every item as it was.  The row that a createItem or updateItem answering
\* 200 has written holds status "Low Stock" exactly if quantity < min_stock;
\* after a sale that need not be so (the witness).
C15_SaleKeepsStatus ==
  /\ []((response.op \in {"create_inventory_item", "update_inventory_item"}
         /\ response.status = 200)
        => \E r \in inventory_items :
              /\ r.id = response.body.id
              /\ r.status \in {"Low Stock", "In Stock"}
              /\ (r.status = "Low Stock" <=> r.quantity < r.min_stock))
  /\ [][(response'.op = "create_transaction"
         /\ response'.request.transaction_type = "sale")
        => /\ ItemIdsOf(inventory_items') = ItemIdsOf(inventory_items)
           /\ \A r \in inventory_items :
                 [r EXCEPT !.quantity = ItemWithId(inventory_items', r.id).quantity]
                   \in inventory_items']_vars

\* C15 witness: a sale has taken an item below its min_stock and the item is
\* still stored as "In Stock".
C15_Witness ==
  /\ response.op = "create_transaction"
  /\ response.request.transaction_type = "sale"
  /\ \E r \in inventory_items :
        /\ r.id = response.request.item_id
        /\ r.status = "In Stock"
        /\ r.quantity < r.min_stock
        /\ r.quantity + response.request.quantity >= r.min_stock

\* C16: a createTransaction whose transaction_type is anything but exactly
\* "sale" stores one new row that carries the request's fields and
\* total_amount = quantity * price_per_unit, and leaves every inventory item
\* as it was.
C16_OtherTypesLeaveStock ==
  [][(response'.op = "create_transaction"
      /\ response'.request.transaction_type # "sale")
     => /\ inventory_items' = inventory_items
        /\ response'.status = 200
        /\ \E t \in transactions' :
              /\ transactions' = transactions \cup {t}
              /\ t \notin transactions
              /\ t.id = response'.body.row.id
              /\ t.item_id = response'.request.item_id
              /\ t.transaction_type = response'.request.transaction_type
              /\ t.quantity = response'.request.quantity
              /\ t.price_per_unit = response'.request.price_per_unit
              /\ t.total_amount = t.quantity * t.price_per_unit]_vars

\* C16 witness: a transaction of type "Sale" is stored with its total_amount
\* while the item it names holds what the "sale" before it left.
C16_Witness ==
  /\ response.op = "create_transaction"
  /\ response.request.transaction_type = "Sale"
  /\ response.request.quantity = 1
  /\ \E t \in transactions :
        /\ t.id = response.body.row.id
        /\ t.transaction_type = "Sale"
        /\ t.total_amount = 125
  /\ \E t \in transactions :
        /\ t.id > Cardinality(SeedTransactions)
        /\ t.transaction_type = "sale"
        /\ t.quantity = 2
  /\ \E r \in inventory_items :
        /\ r.id = response.request.item_id
        /\ r.quantity = QuantityOf(SeedItems, r.id) - 2

\* C17: a sale is not checked against the stock: a sale of Q on an item that
\* holds less than Q answers 200, is stored, and leaves the item at its old
\* quantity minus Q, which is below zero.
C17_SaleBelowZero ==
  [][(/\ response'.op = "create_transaction"
      /\ response'.request.transaction_type = "sale"
      /\ \E r \in inventory_items :
            r.id = response'.request.item_id /\ r.quantity < response'.request.quantity)
     => /\ response'.status = 200
        /\ \E t \in transactions' :
              /\ t \notin transactions
              /\ t.id = response'.body.row.id
              /\ t.transaction_type = "sale"
              /\ t.quantity = response'.request.quantity
        /\ ItemWithId(inventory_items', response'.request.item_id).quantity
             = ItemWithId(inventory_items, response'.request.item_id).quantity
                 - response'.request.quantity
        /\ (ItemWithId(inventory_items, response'.request.item_id).quantity >= 0
            => ItemWithId(inventory_items', response'.request.item_id).quantity < 0)]_vars

\* C17 witness: a sale of 10 on an item that held 3 left it at -7.
C17_Witness ==
  /\ response.op = "create_transaction"
  /\ response.request.transaction_type = "sale"
  /\ response.request.quantity = 10
  /\ \E r \in inventory_items : r.id = response.request.item_id /\ r.quantity = -7
  /\ \E t \in transactions : t.id = response.body.row.id /\ t.quantity = 10

====
